---- MODULE Spec2Model ----
(***************************************************************************)
(* State-machine model of tom/matplotlib.py: the generator axes_iter and   *)
(* the helper set_clim_to_convex_hull, together with the part of pyplot's  *)
(* implicit state that the two functions read and write (the figures, the  *)
(* axes, the current axes, the current image of each axes).                *)
(***************************************************************************)
EXTENDS Integers, Sequences, FiniteSets, TLC

\* ------------------------------------------------------------------ bounds
MaxItems == 4
MaxCols == 3
MaxPanels == 2
MaxLim == 1

\* ------------------------------------------------------- values and handles
\* Python's None and an optional value, as sequences of length 0 and 1.
None == <<>>
Some(v) == <<v>>

\* What pyplot.subplots hands back: one Axes object, or an array of them.
AxesHandle(i) == [kind |-> "Axes", id |-> i, elems |-> <<>>]
NdArray(ids) == [kind |-> "ndarray", id |-> 0, elems |-> ids]
NoHandle == [kind |-> "None", id |-> 0, elems |-> <<>>]

Lims == 0..MaxLim
\* The colour-limit pairs an image can carry.
ClimPairs == {p \in Lims \X Lims : p[1] <= p[2]}

Min2(a, b) == IF a <= b THEN a ELSE b
Max2(a, b) == IF a >= b THEN a ELSE b

VARIABLES
  \* pyplot's state
  figCount,      \* number of figures created so far
  axFig,         \* axFig[a]: the figure that axes a belongs to
  curAx,         \* the current axes (0: the current figure has none)
  images,        \* images[a]: None, or Some(clim pair) of a's current image
  subplotsLog,   \* one record per pyplot.subplots call
  ylabelLog,     \* one record per pyplot.ylabel call
  tightCalls,    \* number of pyplot.tight_layout calls
  lastCall,      \* the most recent pyplot call
  \* axes_iter: parameters
  items, ncols, sharey, shared_ylabel, clim_convex_hull,
  \* axes_iter: position and locals
  gen, idx, item, all_axes, current_axes, axes, error,
  \* set_clim_to_convex_hull: position and locals
  uPc, uArgs, uI, min_limit, max_limit, uSaved, uCaller,
  \* history
  handed,        \* one record per item handed to the caller
  unifyCalls,    \* the argument lists set_clim_to_convex_hull was called with
  uEntryAx,      \* the current axes when the running/last call was entered
  uEntryImages,  \* images when the running/last call was entered
  onceImages,    \* images when the first call of a session of calls returned
  resumeAx,      \* the current axes when the caller last resumed the generator
  closed         \* the caller has closed the generator

pyplotVars == <<figCount, axFig, curAx, images, subplotsLog, ylabelLog,
                tightCalls, lastCall>>
paramVars == <<items, ncols, sharey, shared_ylabel, clim_convex_hull>>
genVars == <<gen, idx, item, all_axes, current_axes, axes, error>>
uVars == <<uPc, uArgs, uI, min_limit, max_limit, uSaved, uCaller>>
histVars == <<handed, unifyCalls, uEntryAx, uEntryImages, onceImages, resumeAx,
              closed>>
vars == <<pyplotVars, paramVars, genVars, uVars, histVars>>

\* ----------------------------------------------------------------- pyplot
Present(a) == images[a] # None

\* pyplot.gci() with a as the current axes: the axes whose image is returned
\* (a's own image, else the image of the axes created last in a's figure that
\* has one), 0 when the figure holds no image at all (gci() returns None).
Gci(a) ==
  IF Present(a) THEN a
  ELSE LET cands == {b \in 1..Len(axFig) : axFig[b] = axFig[a] /\ Present(b)}
       IN IF cands = {} THEN 0
          ELSE CHOOSE b \in cands : \A c \in cands : c <= b

\* pyplot.subplots(1, nc): the ids of the axes it adds to its new figure.
NewIds(nc) == [i \in 1..nc |-> Len(axFig) + i]

\* pyplot.subplots(1, nc) with squeeze: a lone Axes for one column, an array
\* of Axes otherwise.
SubplotsReturn(nc) ==
  IF nc = 1 THEN AxesHandle(Len(axFig) + 1) ELSE NdArray(NewIds(nc))

\* What a call pyplot.subplots(1, nc) can do: build the row, or, for a
\* non-positive column count, raise ValueError or (nc = 0, library versions
\* that do not validate the grid) return an empty array.
SubplotsOutcomes(nc) ==
  IF nc >= 1 THEN {"ok"}
  ELSE IF nc = 0 THEN {"ValueError", "empty"} ELSE {"ValueError"}

\* list(h): defined for an array only ('Axes' object is not iterable).
ToList(h) ==
  IF h.kind = "ndarray"
  THEN [ok |-> TRUE, list |-> [i \in 1..Len(h.elems) |-> AxesHandle(h.elems[i])]]
  ELSE [ok |-> FALSE, list |-> <<>>]

\* --------------------------------------------------------------- axes_iter
\* Lines 37-41: the row as a list of Axes handles.
RowList_NoWorkaround(nc, h) == ToList(h)

RowList(nc, h) ==
  IF nc = 1 THEN [ok |-> TRUE, list |-> <<h>>] ELSE ToList(h)

\* Line 33: the sharey argument handed to pyplot.subplots.
ShareyArg(flag) == IF flag THEN "row" ELSE "none"

\* Lines 34: whether the common y-axis label is set for a new row.
SetsYlabel_IgnoresSharey(flag, label) == label # None

SetsYlabel(flag, label) == flag /\ label # None

\* The colour limits of the image the caller draws for an item.
ItemClim(it) == <<it, it + 1>>

\* Line 31: whether the item needs a new row of axes.
NeedRow_Always(buf) == TRUE

NeedRow(buf) == Len(buf) = 0

\* Line 49: the arguments of the call of set_clim_to_convex_hull.
PostPassArgs_LastOnly(all) == IF all = <<>> THEN <<>> ELSE <<all[Len(all)]>>

PostPassArgs(all) == all

Fail(kind) ==
  /\ gen' = "failed"
  /\ error' = kind

\* The caller's first next(): the generator body starts running.
GenStart ==
  /\ gen = "created"
  /\ gen' = "fetch"
  /\ UNCHANGED <<idx, item, all_axes, current_axes, axes, error>>
  /\ UNCHANGED <<pyplotVars, paramVars, uVars, histVars>>

\* Line 30: the for statement takes the next item, or finds none left.
GenFetch ==
  /\ gen = "fetch"
  /\ IF idx < Len(items)
     THEN /\ item' = items[idx + 1]
          /\ idx' = idx + 1
          /\ gen' = IF NeedRow(current_axes) THEN "alloc" ELSE "pop"
     ELSE /\ gen' = "post"
          /\ UNCHANGED <<item, idx>>
  /\ UNCHANGED <<all_axes, current_axes, axes, error>>
  /\ UNCHANGED <<pyplotVars, paramVars, uVars, histVars>>

\* Lines 31-41: a new row of axes.
GenAllocRow ==
  /\ gen = "alloc"
  /\ \E outcome \in SubplotsOutcomes(ncols) :
       LET f == figCount + 1
           new_axes == SubplotsReturn(ncols)
           added == IF ncols >= 1 THEN ncols ELSE 0
           axFigSub == axFig \o [i \in 1..added |-> f]
           imagesSub == images \o [i \in 1..added |-> None]
           curSub == IF added > 0 THEN Len(axFig) + added ELSE 0
           call == [ncols |-> ncols, sharey |-> ShareyArg(sharey), fig |-> f,
                    built |-> outcome # "ValueError"]
           label == SetsYlabel(sharey, shared_ylabel)
           \* pyplot.ylabel goes through gca(), which adds an axes to a
           \* figure that has none
           grow == label /\ curSub = 0
           labelAx == IF grow THEN Len(axFigSub) + 1 ELSE curSub
           row == RowList(ncols, new_axes)
       IN
       /\ figCount' = f
       /\ subplotsLog' = Append(subplotsLog, call)
       /\ IF outcome = "ValueError"
          THEN /\ curAx' = 0
               /\ lastCall' = "subplots"
               /\ Fail("ValueError")
               /\ UNCHANGED <<axFig, images, ylabelLog, current_axes>>
          ELSE /\ axFig' = IF grow THEN Append(axFigSub, f) ELSE axFigSub
               /\ images' = IF grow THEN Append(imagesSub, None) ELSE imagesSub
               /\ curAx' = labelAx
               /\ ylabelLog' =
                    IF label
                    THEN Append(ylabelLog,
                                [text |-> shared_ylabel[1], ax |-> labelAx,
                                 row |-> Len(subplotsLog) + 1,
                                 handedBefore |-> Len(handed)])
                    ELSE ylabelLog
               /\ lastCall' = IF label THEN "ylabel" ELSE "subplots"
               /\ IF row.ok
                  THEN /\ current_axes' = row.list
                       /\ gen' = "pop"
                       /\ UNCHANGED error
                  ELSE /\ Fail("TypeError")
                       /\ UNCHANGED current_axes
  /\ UNCHANGED <<tightCalls, idx, item, all_axes, axes>>
  /\ UNCHANGED <<paramVars, uVars, histVars>>

\* Lines 42-44: the next axes of the row becomes current, the item is yielded.
GenPopYield ==
  /\ gen = "pop"
  /\ IF Len(current_axes) = 0
     THEN /\ Fail("IndexError")
          /\ UNCHANGED <<axes, current_axes, curAx, lastCall, handed>>
     ELSE /\ axes' = Head(current_axes)
          /\ current_axes' = Tail(current_axes)
          /\ IF axes'.kind = "Axes"
             THEN /\ curAx' = axes'.id
                  /\ lastCall' = "sca"
                  /\ handed' = Append(handed, [item |-> item, ax |-> axes',
                                               active |-> curAx'])
                  /\ gen' = "suspended"
                  /\ UNCHANGED error
             ELSE /\ Fail("ValueError")
                  /\ UNCHANGED <<curAx, lastCall, handed>>
  /\ UNCHANGED <<figCount, axFig, images, subplotsLog, ylabelLog, tightCalls>>
  /\ UNCHANGED <<idx, item, all_axes>>
  /\ UNCHANGED <<paramVars, uVars, unifyCalls, uEntryAx, uEntryImages, onceImages, resumeAx, closed>>

\* While the generator is suspended at the yield, the caller draws the item
\* into the axes it was given.
CallerDraw ==
  /\ gen = "suspended"
  /\ curAx = axes.id
  /\ images[curAx] = None
  /\ images' = [images EXCEPT ![curAx] = Some(ItemClim(item))]
  /\ lastCall' = "draw"
  /\ UNCHANGED <<figCount, axFig, curAx, subplotsLog, ylabelLog, tightCalls>>
  /\ UNCHANGED <<paramVars, genVars, uVars, histVars>>

\* While suspended, the caller makes some other axes current.
CallerSca ==
  /\ gen = "suspended"
  /\ \E a \in 1..Len(axFig) :
       /\ a # curAx
       /\ curAx' = a
  /\ lastCall' = "sca"
  /\ UNCHANGED <<figCount, axFig, images, subplotsLog, ylabelLog, tightCalls>>
  /\ UNCHANGED <<paramVars, genVars, uVars, histVars>>

\* Line 45: all_axes.append(axes).
Record_Prepend(all, ax) == <<ax>> \o all

Record(all, ax) == Append(all, ax)

\* Line 46: pyplot.tight_layout() is called; n calls were made before.
TightLayout_Skipped(n) == n

TightLayout(n) == n + 1

\* Lines 45-46: the caller's next() resumes the generator after the yield.
GenResume ==
  /\ gen = "suspended"
  /\ all_axes' = Record(all_axes, axes)
  /\ tightCalls' = TightLayout(tightCalls)
  /\ lastCall' = "tight_layout"
  /\ gen' = "fetch"
  /\ resumeAx' = curAx
  /\ UNCHANGED <<figCount, axFig, curAx, images, subplotsLog, ylabelLog>>
  /\ UNCHANGED <<idx, item, current_axes, axes, error>>
  /\ UNCHANGED <<paramVars, uVars>>
  /\ UNCHANGED <<handed, unifyCalls, uEntryAx, uEntryImages, onceImages, closed>>

\* Line 44: where a generator closed at the yield goes on; the yield is in no
\* try statement, so GeneratorExit leaves the body at once.
AfterClose_RunsPostPass == "post"

AfterClose == "closed"

\* The caller drops the generator while it is suspended: nothing more of the
\* body runs.
GenClose ==
  /\ gen = "suspended"
  /\ gen' = AfterClose
  /\ closed' = TRUE
  /\ UNCHANGED <<idx, item, all_axes, current_axes, axes, error>>
  /\ UNCHANGED <<pyplotVars, paramVars, uVars>>
  /\ UNCHANGED <<handed, unifyCalls, uEntryAx, uEntryImages, onceImages, resumeAx>>

\* ------------------------------------------------- set_clim_to_convex_hull
\* Lines 52-55: the call is entered with its arguments bound.
Enter(args, caller) ==
  /\ uPc' = "gca"
  /\ uArgs' = args
  /\ uI' = 1
  /\ min_limit' = None
  /\ max_limit' = None
  /\ uSaved' = 0
  /\ uCaller' = caller
  /\ unifyCalls' = Append(unifyCalls, args)
  /\ uEntryAx' = curAx
  /\ uEntryImages' = images

\* Lines 48-49: after the last item.
GenPost ==
  /\ gen = "post"
  /\ IF clim_convex_hull
     THEN /\ gen' = "unify"
          /\ Enter(PostPassArgs(all_axes), "axes_iter")
     ELSE /\ gen' = "done"
          /\ UNCHANGED <<uVars, unifyCalls, uEntryAx, uEntryImages>>
  /\ UNCHANGED <<idx, item, all_axes, current_axes, axes, error>>
  /\ UNCHANGED <<pyplotVars, paramVars, handed, onceImages, resumeAx, closed>>

\* The exception leaves set_clim_to_convex_hull and, when axes_iter made the
\* call, axes_iter as well.
Raise(kind) ==
  /\ uPc' = "raised"
  /\ IF uCaller = "axes_iter"
     THEN Fail(kind)
     ELSE /\ error' = kind
          /\ UNCHANGED gen

\* Lines 60 and 69: a for loop over no arguments runs its body not at all.
AfterGca_BodyFirst(args) == "read"

AfterGca(args) == IF Len(args) = 0 THEN "restore" ELSE "read"

\* all_axes[i], where an index past the end raises IndexError.
ArgAt(i) == IF i <= Len(uArgs) THEN uArgs[i] ELSE NoHandle

\* Line 58: pyplot.gca(), which creates an axes when there is none.
UGca ==
  /\ uPc = "gca"
  /\ IF curAx # 0
     THEN /\ uSaved' = curAx
          /\ UNCHANGED <<figCount, axFig, images, curAx>>
     ELSE /\ figCount' = IF figCount = 0 THEN 1 ELSE figCount
          /\ axFig' = Append(axFig, figCount')
          /\ images' = Append(images, None)
          /\ curAx' = Len(axFig) + 1
          /\ uSaved' = curAx'
  /\ lastCall' = "gca"
  /\ uPc' = AfterGca(uArgs)
  /\ UNCHANGED <<subplotsLog, ylabelLog, tightCalls>>
  /\ UNCHANGED <<uArgs, uI, min_limit, max_limit, uCaller>>
  /\ UNCHANGED <<paramVars, genVars, histVars>>

\* Lines 65-66: the running minimum and maximum.
FoldMin_First(this, acc) == IF acc = None THEN Some(this) ELSE acc

FoldMin(this, acc) == IF acc = None THEN Some(this) ELSE Some(Min2(this, acc[1]))

FoldMax(this, acc) == IF acc = None THEN Some(this) ELSE Some(Max2(this, acc[1]))

\* Lines 60-66: one pass of the reading loop.
URead ==
  /\ uPc = "read"
  /\ LET h == ArgAt(uI)
         owner == IF h.kind = "Axes" THEN Gci(h.id) ELSE 0
     IN
     /\ IF h.kind # "Axes"
        THEN /\ Raise("IndexError")
             /\ UNCHANGED <<curAx, lastCall, uI, min_limit, max_limit>>
        ELSE IF owner = 0
        THEN /\ curAx' = h.id
             /\ lastCall' = "gci"
             /\ Raise("AttributeError")
             /\ UNCHANGED <<uI, min_limit, max_limit>>
        ELSE /\ curAx' = h.id
             /\ lastCall' = "get_clim"
             /\ min_limit' = FoldMin(images[owner][1][1], min_limit)
             /\ max_limit' = FoldMax(images[owner][1][2], max_limit)
             /\ IF uI < Len(uArgs)
                THEN /\ uI' = uI + 1
                     /\ UNCHANGED uPc
                ELSE /\ uI' = 1
                     /\ uPc' = "write"
             /\ UNCHANGED <<gen, error>>
  /\ UNCHANGED <<figCount, axFig, images, subplotsLog, ylabelLog, tightCalls>>
  /\ UNCHANGED <<uArgs, uSaved, uCaller>>
  /\ UNCHANGED <<paramVars, idx, item, all_axes, current_axes, axes, histVars>>

\* Line 71: the pair pyplot.clim is called with.
NewClim_Swapped(lo, hi) == <<hi[1], lo[1]>>

NewClim(lo, hi) == <<lo[1], hi[1]>>

\* Lines 69-71: one pass of the writing loop.
UWrite ==
  /\ uPc = "write"
  /\ LET h == ArgAt(uI)
         owner == IF h.kind = "Axes" THEN Gci(h.id) ELSE 0
     IN
     /\ IF h.kind # "Axes"
        THEN /\ Raise("IndexError")
             /\ UNCHANGED <<curAx, lastCall, uI, images>>
        ELSE IF owner = 0
        THEN /\ curAx' = h.id
             /\ lastCall' = "gci"
             /\ Raise("RuntimeError")
             /\ UNCHANGED <<uI, images>>
        ELSE /\ curAx' = h.id
             /\ lastCall' = "clim"
             /\ images' = [images EXCEPT ![owner] = Some(NewClim(min_limit, max_limit))]
             /\ IF uI < Len(uArgs)
                THEN /\ uI' = uI + 1
                     /\ UNCHANGED uPc
                ELSE /\ uI' = 1
                     /\ uPc' = "restore"
             /\ UNCHANGED <<gen, error>>
  /\ UNCHANGED <<figCount, axFig, subplotsLog, ylabelLog, tightCalls>>
  /\ UNCHANGED <<uArgs, min_limit, max_limit, uSaved, uCaller>>
  /\ UNCHANGED <<paramVars, idx, item, all_axes, current_axes, axes, histVars>>

\* Line 73: what pyplot.sca is called with at the end.
RestoreTarget_LastArg(saved, args) ==
  IF Len(args) = 0 THEN saved ELSE args[Len(args)].id

RestoreTarget(saved, args) == saved

\* Line 73, and the return.
URestore ==
  /\ uPc = "restore"
  /\ curAx' = RestoreTarget(uSaved, uArgs)
  /\ lastCall' = "sca"
  /\ uPc' = "returned"
  /\ gen' = IF uCaller = "axes_iter" THEN "done" ELSE gen
  /\ onceImages' = IF Len(unifyCalls) = 1 THEN images ELSE onceImages
  /\ UNCHANGED <<figCount, axFig, images, subplotsLog, ylabelLog, tightCalls>>
  /\ UNCHANGED <<uArgs, uI, min_limit, max_limit, uSaved, uCaller>>
  /\ UNCHANGED <<paramVars, idx, item, all_axes, current_axes, axes, error>>
  /\ UNCHANGED <<handed, unifyCalls, uEntryAx, uEntryImages, resumeAx, closed>>

\* ---------------------------------------------------------------- sessions
\* The defaults of axes_iter's parameters (line 9).
DefaultNcols == 3

HistInit ==
  /\ handed = <<>>
  /\ unifyCalls = <<>>
  /\ uEntryAx = 0
  /\ uEntryImages = <<>>
  /\ onceImages = <<>>
  /\ resumeAx = 0
  /\ closed = FALSE

UInit ==
  /\ uPc = "idle"
  /\ uArgs = <<>>
  /\ uI = 1
  /\ min_limit = None
  /\ max_limit = None
  /\ uSaved = 0
  /\ uCaller = "none"

LocalsInit ==
  /\ idx = 0
  /\ item = 0
  /\ all_axes = <<>>
  /\ current_axes = <<>>
  /\ axes = NoHandle
  /\ error = "none"

LogsInit ==
  /\ subplotsLog = <<>>
  /\ ylabelLog = <<>>
  /\ tightCalls = 0
  /\ lastCall = "none"

\* A session of axes_iter: the generator has been created from some items and
\* parameters, in a process that has drawn nothing or holds one empty axes.
Init ==
  /\ \E pre \in 0..1 :
       /\ figCount = pre
       /\ axFig = [i \in 1..pre |-> 1]
       /\ images = [i \in 1..pre |-> None]
       /\ curAx = pre
  /\ LogsInit
  /\ \E n \in 0..MaxItems : items = [i \in 1..n |-> i]
  /\ ncols \in (0 - 1)..MaxCols
  /\ sharey \in BOOLEAN
  /\ shared_ylabel \in {None, Some("y")}
  /\ clim_convex_hull \in BOOLEAN
  /\ gen = "created"
  /\ LocalsInit
  /\ UInit
  /\ HistInit

Next ==
  \/ GenStart
  \/ GenFetch
  \/ GenAllocRow
  \/ GenPopYield
  \/ CallerDraw
  \/ CallerSca
  \/ GenResume
  \/ GenClose
  \/ GenPost
  \/ UGca
  \/ URead
  \/ UWrite
  \/ URestore

Spec == Init /\ [][Next]_vars

\* Direct calls of set_clim_to_convex_hull on axes the caller has made: up to
\* MaxPanels axes, in one figure or in a figure each, with or without an image.
ArgLists ==
  LET k == Len(axFig)
  IN UNION {[1..m -> {AxesHandle(a) : a \in 1..k}] : m \in 0..k}

UnifyInit ==
  /\ \E k \in 0..MaxPanels, oneFig \in BOOLEAN :
       /\ (k < 2 => oneFig)
       /\ figCount = IF k = 0 THEN 0 ELSE IF oneFig THEN 1 ELSE k
       /\ axFig = [i \in 1..k |-> IF oneFig THEN 1 ELSE i]
       /\ images \in [1..k -> {None} \cup {Some(p) : p \in ClimPairs}]
       /\ curAx \in IF k = 0 THEN {0} ELSE 1..k
  /\ LogsInit
  /\ items = <<>>
  /\ ncols = DefaultNcols
  /\ sharey = FALSE
  /\ shared_ylabel = None
  /\ clim_convex_hull = FALSE
  /\ gen = "none"
  /\ LocalsInit
  /\ UInit
  /\ HistInit

\* The caller calls set_clim_to_convex_hull(*args).
UserCall ==
  /\ gen = "none"
  /\ uPc = "idle"
  /\ \E args \in ArgLists : Enter(args, "user")
  /\ UNCHANGED <<pyplotVars, paramVars, genVars, handed, onceImages, resumeAx, closed>>

\* The caller makes the same call once more, straight after the first.
UserCallAgain ==
  /\ gen = "none"
  /\ uPc = "returned"
  /\ Len(unifyCalls) = 1
  /\ Enter(uArgs, "user")
  /\ UNCHANGED <<pyplotVars, paramVars, genVars, handed, onceImages, resumeAx, closed>>

UnifyNext ==
  \/ UserCall
  \/ UserCallAgain
  \/ UGca
  \/ URead
  \/ UWrite
  \/ URestore

SpecUnify == UnifyInit /\ [][UnifyNext]_vars

\* ------------------------------------------------------------------ claims
Ceil(a, b) == (a + b - 1) \div b

MinOf(S) == CHOOSE x \in S : \A y \in S : x <= y
MaxOf(S) == CHOOSE x \in S : \A y \in S : y <= x

\* The for loop of axes_iter has run out of items.
Exhausted ==
  \/ gen \in {"post", "unify", "done"}
  \/ gen = "failed" /\ uPc = "raised"

\* C1: for ncols >= 1, a run of axes_iter over n items that reaches the end of
\* the items has called pyplot.subplots exactly ceil(n / ncols) times.
C1_RowAllocations ==
  (ncols >= 1 /\ Exhausted) => Len(subplotsLog) = Ceil(Len(items), ncols)

\* Four items in three columns: two rows, the fourth item in the first axes
\* of the second row.
C1_Witness ==
  /\ gen = "done"
  /\ Len(items) = 4
  /\ ncols = 3
  /\ Len(subplotsLog) = 2
  /\ axFig[handed[4].ax.id] = subplotsLog[2].fig
  /\ axFig[handed[4].ax.id - 1] = subplotsLog[1].fig

\* The arguments of the running or last call each held an image of their own
\* when the call was entered.
ArgsHadImages ==
  \A i \in 1..Len(uArgs) : uEntryImages[uArgs[i].id] # None

EntryHull ==
  <<MinOf({uEntryImages[uArgs[i].id][1][1] : i \in 1..Len(uArgs)}),
    MaxOf({uEntryImages[uArgs[i].id][1][2] : i \in 1..Len(uArgs)})>>

\* C2: when set_clim_to_convex_hull returns from a call on one or more axes
\* that each held an image, every one of them has the limits (least of the
\* lower limits, greatest of the upper limits) of the images as they were when
\* the call was entered.
C2_ConvexHull ==
  (uPc = "returned" /\ Len(uArgs) > 0 /\ ArgsHadImages)
    => \A i \in 1..Len(uArgs) : images[uArgs[i].id] = Some(EntryHull)

\* Two axes whose hull is the limit pair of neither.
C2_Witness ==
  /\ uPc = "returned"
  /\ Len(uArgs) = 2
  /\ ArgsHadImages
  /\ uEntryImages[uArgs[1].id] # Some(EntryHull)
  /\ uEntryImages[uArgs[2].id] # Some(EntryHull)
  /\ images[uArgs[1].id] = Some(EntryHull)

\* C3: when set_clim_to_convex_hull returns, the last pyplot call it made is
\* the sca that makes current the axes gca() gave at line 58, which is the
\* axes that was current when the call was entered.
C3_RestoresCurrentAxes ==
  uPc = "returned"
    => /\ lastCall = "sca"
       /\ curAx = uSaved
       /\ uEntryAx # 0 => curAx = uEntryAx

\* The call moved the current axes away from the one it restores.
C3_Witness ==
  /\ uPc = "returned"
  /\ Len(uArgs) > 0
  /\ uEntryAx # 0
  /\ uArgs[Len(uArgs)].id # uEntryAx
  /\ curAx = uEntryAx

C3_WitnessNoArgs ==
  /\ uPc = "returned"
  /\ Len(uArgs) = 0
  /\ uEntryAx # 0

\* C4: with ncols <= 0 axes_iter neither calls pyplot.subplots nor runs to its
\* end.
C4_FailsFast ==
  ncols <= 0 => (subplotsLog = <<>> /\ gen # "done")

\* C5: for ncols >= 1 the items are handed over in input order, each once,
\* each with exactly one Axes current that was given to no earlier item, and
\* no exception leaves the loop.
C5_ItemsAndPanels ==
  ncols >= 1 =>
    /\ Len(handed) = IF gen \in {"alloc", "pop"} THEN idx - 1 ELSE idx
    /\ \A k \in 1..Len(handed) :
         /\ handed[k].item = items[k]
         /\ handed[k].ax.kind = "Axes"
         /\ handed[k].active = handed[k].ax.id
         /\ handed[k].ax.id \in 1..Len(axFig)
         /\ \A j \in 1..(k - 1) : handed[j].ax.id # handed[k].ax.id
    /\ Exhausted => Len(handed) = Len(items)
    /\ gen = "failed" => uPc = "raised"
    /\ gen = "suspended" => axes = handed[Len(handed)].ax

\* One column: every row is a single Axes, not an array.
C5_Witness ==
  /\ ncols = 1
  /\ gen = "done"
  /\ Len(handed) = 3

\* C6: a run over no items creates no figure and no axes and hands over
\* nothing.
C6_EmptyAllocatesNothing ==
  [][Len(items) = 0 =>
       (figCount' = figCount /\ axFig' = axFig /\ handed' = handed)]_vars

\* C7: a call of set_clim_to_convex_hull without arguments changes no image's
\* limits and raises nothing.
C7_NoPanels ==
  (uPc # "idle" /\ Len(uArgs) = 0) =>
    /\ uPc \in {"gca", "restore", "returned"}
    /\ error = "none"
    /\ \A a \in 1..Len(uEntryImages) : images[a] = uEntryImages[a]
    /\ \A a \in 1..Len(images) : a > Len(uEntryImages) => images[a] = None

C7_Witness ==
  /\ uPc = "returned"
  /\ Len(uArgs) = 0
  /\ \E a \in 1..Len(images) : images[a] # None

\* C8: after a second call on the same axes, each holding an image, every
\* image has the limits it had after the first call.
C8_Idempotent ==
  (Len(unifyCalls) = 2 /\ uPc = "returned" /\ ArgsHadImages)
    => images = onceImages

C8_Witness ==
  /\ Len(unifyCalls) = 2
  /\ uPc = "returned"
  /\ Len(uArgs) = 2
  /\ uArgs[1] # uArgs[2]
  /\ ArgsHadImages
  /\ images[uArgs[1].id] = Some(<<0, 1>>)

\* The axes handed out so far, in order.
HandedAxes == [k \in 1..Len(handed) |-> handed[k].ax]

PastPost ==
  \/ gen \in {"unify", "done"}
  \/ gen = "failed" /\ uPc = "raised"

\* C9: set_clim_to_convex_hull is called only when clim_convex_hull is set,
\* once, after the last item has been processed, with all the axes handed out,
\* in order.
C9_PostPass ==
  /\ unifyCalls = IF clim_convex_hull /\ PastPost THEN <<HandedAxes>> ELSE <<>>
  /\ uPc # "idle" =>
       /\ idx = Len(items)
       /\ Len(handed) = Len(items)
       /\ tightCalls = Len(items)
       /\ Len(all_axes) = Len(items)

C9_Witness ==
  /\ gen = "done"
  /\ clim_convex_hull
  /\ Len(unifyCalls) = 1
  /\ Len(unifyCalls[1]) = 3

C9_WitnessOff ==
  /\ gen = "done"
  /\ ~clim_convex_hull
  /\ Len(handed) = 3

\* C10: pyplot.ylabel is called once for each row built, right when it is
\* built and before any of its axes is handed out, if sharey is set and a
\* label is given, and never otherwise.
C10_SharedYlabel ==
  LET built == {r \in 1..Len(subplotsLog) : subplotsLog[r].built}
  IN IF sharey /\ shared_ylabel # None
     THEN /\ Len(ylabelLog) = Cardinality(built)
          /\ \A r \in 1..Len(ylabelLog) :
               /\ ylabelLog[r].row = r
               /\ ylabelLog[r].text = shared_ylabel[1]
               /\ axFig[ylabelLog[r].ax] = subplotsLog[r].fig
               /\ ylabelLog[r].handedBefore = (r - 1) * ncols
               /\ \A k \in 1..ylabelLog[r].handedBefore :
                    axFig[handed[k].ax.id] # subplotsLog[r].fig
     ELSE ylabelLog = <<>>

C10_Witness ==
  /\ sharey
  /\ shared_ylabel # None
  /\ gen = "done"
  /\ Len(ylabelLog) = 2
  /\ ncols = 2

C10_WitnessNoSharey ==
  /\ ~sharey
  /\ shared_ylabel # None
  /\ Len(subplotsLog) = 2

\* The items whose yield the caller has resumed the generator from.
Resumed == IF gen \in {"suspended", "closed"} THEN Len(handed) - 1 ELSE Len(handed)

C11_Count ==
  /\ tightCalls = Resumed
  /\ Exhausted => tightCalls = Len(items)

C11_Step ==
  \* tight_layout runs in the step that resumes the generator, and only there
  /\ tightCalls' = IF gen = "suspended" /\ gen' = "fetch"
                   THEN tightCalls + 1 ELSE tightCalls
  \* a row is allocated, or an axes made current for an item, only when
  \* every item handed out before has had its tight_layout
  /\ (Len(subplotsLog') > Len(subplotsLog) \/ Len(handed') > Len(handed))
       => tightCalls = Len(handed)

\* C11: pyplot.tight_layout runs once for each item the caller resumes the
\* generator from, in the resuming step, before the next row is allocated and
\* before the next axes is made current; n times over a full run of n items.
C11_TightLayout == []C11_Count /\ [][C11_Step]_vars

C11_Witness ==
  /\ gen = "done"
  /\ tightCalls = 4
  /\ Len(subplotsLog) = 2

\* Some argument of the running or last call held no image of its own when
\* the call was entered.
SomeArgHadNoImage ==
  \E i \in 1..Len(uArgs) : uEntryImages[uArgs[i].id] = None

\* C12: when set_clim_to_convex_hull is left by an exception, the axes that
\* was current on entry is current again.
C12_RestoredOnError ==
  (uPc = "raised" /\ uEntryAx # 0) => curAx = uEntryAx

\* C13: a call with an argument that holds no image never gets past the
\* reading loop, and leaves every image's limits as they were on entry.
C13_AllOrNothing ==
  (uPc # "idle" /\ SomeArgHadNoImage) =>
    /\ uPc \in {"gca", "read", "raised"}
    /\ images = uEntryImages

C14_Closed ==
  closed =>
    /\ gen = "closed"
    /\ unifyCalls = <<>>
    /\ uPc = "idle"
    /\ error = "none"
    /\ ncols >= 1 => Len(subplotsLog) = Ceil(Len(handed), ncols)

\* C14: once the caller has closed the generator at a yield, nothing more
\* happens: set_clim_to_convex_hull has not been and is not called, nothing
\* is raised, no row is allocated.
C14_EarlyStop == []C14_Closed /\ [][~closed]_vars

\* Closed at the second of four items, with the post pass asked for.
C14_Witness ==
  /\ closed
  /\ clim_convex_hull
  /\ Len(items) = 4
  /\ Len(handed) = 2
  /\ images[handed[1].ax.id] # None
  /\ images[handed[2].ax.id] # None

C15_Prefix == all_axes = SubSeq(HandedAxes, 1, Resumed)

C15_Step ==
  \/ all_axes' = all_axes
  \/ all_axes' = Append(all_axes, handed[Len(handed)].ax)

C16_FinalCurrentAxes ==
  (gen = "done" /\ Len(items) > 0) =>
    /\ curAx = resumeAx
    /\ resumeAx = handed[Len(handed)].active => curAx = handed[Len(handed)].ax.id

\* The post pass ran over axes that all hold an image, after a caller that
\* had made another axes current.
C16_Witness ==
  /\ gen = "done"
  /\ clim_convex_hull
  /\ Len(items) = 3
  /\ ArgsHadImages
  /\ resumeAx # handed[3].ax.id
  /\ uArgs[3].id # resumeAx

C16_WitnessNoRedirect ==
  /\ gen = "done"
  /\ clim_convex_hull
  /\ Len(items) = 3
  /\ ArgsHadImages
  /\ curAx = handed[3].ax.id

C17_Suspended ==
  (ncols >= 1 /\ gen \in {"suspended", "closed"}) =>
    /\ Len(subplotsLog) = Ceil(Len(handed), ncols)
    /\ Len(current_axes) < ncols
    /\ Len(handed) + Len(current_axes) = ncols * Len(subplotsLog)

C17_Step ==
  Len(subplotsLog') > Len(subplotsLog) =>
    /\ gen = "alloc"
    /\ Len(current_axes) = 0
    /\ idx = Len(handed) + 1
    /\ Len(subplotsLog') = Len(subplotsLog) + 1

\* C17: for ncols >= 1, whenever the generator is suspended with k items
\* handed out, ceil(k / ncols) rows have been allocated, fewer than ncols axes
\* are waiting in current_axes, and handed out plus waiting axes make up the
\* rows; a row is allocated only for an item that has arrived and found
\* current_axes empty.
C17_LazyRows == []C17_Suspended /\ [][C17_Step]_vars

\* Suspended at the fourth item in rows of three: two rows, two axes waiting.
C17_Witness ==
  /\ gen = "suspended"
  /\ ncols = 3
  /\ Len(handed) = 4
  /\ Len(subplotsLog) = 2
  /\ Len(current_axes) = 2

====
